---- MODULE Spec2Model ----
(***************************************************************************)
(* Model of sentence_corruption/lexical_substitution.py: the WordReplacer  *)
(* class (process_data, train_model, save_model, load_model,               *)
(* get_substitutes) and the command-line workflow of its __main__ block.   *)
(*                                                                         *)
(* Conventions.  A tokenized sentence is a sequence of words.  A sentence  *)
(* string " ".join(words) is represented by the same sequence of words:    *)
(* tokens never hold a space, so the join is injective and splitting it    *)
(* gives the words back.  Python lists are TLA+ sequences, so Python index *)
(* i is TLA+ index i+1; word ids, locations and timesteps keep Python's    *)
(* 0-based values.  None is the string "None"; an optional number is the   *)
(* empty sequence (None) or the one-element sequence holding the number.   *)
(***************************************************************************)
EXTENDS Integers, Sequences, FiniteSets, TLC

None == "None"

Some(x) == <<x>>

Absent == <<>>

(***************************************************************************)
(* Bounds of the explored inputs.                                          *)
(***************************************************************************)
MaxSentences == 2        \* sentences in a test file / a get_substitutes batch
MaxFileWords == 4        \* words in a test file, all sentences together
MaxBatchWords == 4       \* words in a get_substitutes batch, all sentences together
NumWeights == 2          \* distinct trained parameter values explored
SmallSearchSpace == 2    \* a --search_space_size below num_substitutes

(***************************************************************************)
(* Program constants.                                                      *)
(***************************************************************************)
DefaultNumSubstitutes == 5
DefaultSearchSpaceSize == 5000
DefaultFactorBase == 2
DefaultWordDim == 50

\* lines 179-180
words_to_ignore ==
    {"<s>", "</s>", "PADDING", ".", ",", "of", "in", "by", "the", "to", "and", "is", "a"}

(***************************************************************************)
(* Generic helpers.                                                        *)
(***************************************************************************)
Min(a, b) == IF a < b THEN a ELSE b

Max(a, b) == IF a > b THEN a ELSE b

RECURSIVE Pow(_, _)
Pow(b, e) == IF e = 0 THEN 1 ELSE b * Pow(b, e - 1)

RECURSIVE SumSeq(_)
SumSeq(s) == IF s = <<>> THEN 0 ELSE Head(s) + SumSeq(Tail(s))

RECURSIVE MaxSeq(_)
MaxSeq(s) == IF s = <<>> THEN 0 ELSE Max(Head(s), MaxSeq(Tail(s)))

Range(s) == {s[i] : i \in 1..Len(s)}

\* F applied to the value of v, computed once
Bind(v, F(_)) == CHOOSE r \in {F(x) : x \in {v}} : TRUE

\* Python s[:k] for k >= 0
PyPrefix(s, k) == SubSeq(s, 1, Min(k, Len(s)))

\* Python s[-k:] : the last k elements for 0 < k <= len(s); the whole of s when
\* k = 0 (s[-0:] is s[0:]) or k > len(s); s[|k|:] when k < 0.
PySliceStart(len, k) ==
    IF k > 0 THEN Max(len - k, 0) ELSE Min(0 - k, len)

(***************************************************************************)
(* DataIndexer (index_data.py).  Its vocabulary is the sequence of words   *)
(* in id order: the word with id i is word_index[i+1].                     *)
(***************************************************************************)
PaddingId == 0

UnknownWord == "UNK"

ReservedWords == <<"PADDING", "<s>", "</s>", UnknownWord>>

NewDataIndexer == [word_index |-> ReservedWords]

get_vocab_size(di) == Len(di.word_index)

IdOf(word_index, w) == CHOOSE i \in 0..(Len(word_index) - 1) : word_index[i + 1] = w

\* One word looked up; a new id is appended only when indexing for training.
IndexWord(word_index, w, training) ==
    IF w \in Range(word_index) THEN [word_index |-> word_index, id |-> IdOf(word_index, w)]
    ELSE IF training
         THEN [word_index |-> Append(word_index, w), id |-> Len(word_index)]
         ELSE [word_index |-> word_index, id |-> IdOf(word_index, UnknownWord)]

RECURSIVE IndexWords(_, _, _)
IndexWords(word_index, words, training) ==
    IF words = <<>> THEN [word_index |-> word_index, ids |-> <<>>]
    ELSE Bind(IndexWord(word_index, Head(words), training), LAMBDA first :
         Bind(IndexWords(first.word_index, Tail(words), training), LAMBDA rest :
              [word_index |-> rest.word_index, ids |-> <<first.id>> \o rest.ids]))

\* Left padding with id 0 up to max_length; a longer sentence loses its tail.
PadOrTruncate(ids, max_length) ==
    IF Len(ids) >= max_length THEN PyPrefix(ids, max_length)
    ELSE [i \in 1..(max_length - Len(ids)) |-> PaddingId] \o ids

RECURSIVE IndexSentences(_, _, _)
IndexSentences(word_index, sentences, training) ==
    IF sentences = <<>> THEN [word_index |-> word_index, all_ids |-> <<>>]
    ELSE Bind(IndexWords(word_index, <<"<s>">> \o Head(sentences) \o <<"</s>">>, training),
              LAMBDA first :
         Bind(IndexSentences(first.word_index, Tail(sentences), training), LAMBDA rest :
              [word_index |-> rest.word_index, all_ids |-> <<first.ids>> \o rest.all_ids]))

\* index_data(sentences, max_length, tokenize): new ids are assigned when no
\* max_length is supplied (the training call), looked up otherwise.
index_data(di, sentences, max_length) ==
    Bind(IndexSentences(di.word_index, sentences, max_length = Absent), LAMBDA indexed :
    Bind([i \in 1..Len(indexed.all_ids) |-> Len(indexed.all_ids[i])], LAMBDA lengths :
    Bind(IF max_length = Absent THEN MaxSeq(lengths) ELSE max_length[1], LAMBDA width :
         [data_indexer |-> [word_index |-> indexed.word_index],
          sentence_lengths |-> lengths,
          indexed_sentences |->
              [i \in 1..Len(lengths) |-> PadOrTruncate(indexed.all_ids[i], width)]])))

RECURSIVE NumFactorsFrom(_, _, _)
\* the least n' >= n with base^n' >= vocab_size
NumFactorsFrom(n, vocab_size, base) ==
    IF Pow(base, n) >= vocab_size THEN n ELSE NumFactorsFrom(n + 1, vocab_size, base)

\* ceil(log_base(vocab_size)), at least one factor
num_factors(vocab_size, base) == NumFactorsFrom(1, vocab_size, base)

\* digit f (1-based) of id in the given base
Digit(id, f, base) == (id \div Pow(base, f - 1)) % base

\* factor_target_indices: one array of digits per factor (the one-hot encoding
\* of a digit is represented by the digit)
factor_target_indices(di, target_array, base) ==
    [f \in 1..num_factors(get_vocab_size(di), base) |->
        [s \in 1..Len(target_array) |->
            [t \in 1..Len(target_array[s]) |-> Digit(target_array[s][t], f, base)]]]

\* joint log-probability of id: the sum of the log-probabilities of its digits
JointScore(factor_probability_vectors, id, base) ==
    SumSeq([f \in 1..Len(factor_probability_vectors) |->
                factor_probability_vectors[f][Digit(id, f, base) + 1]])

RECURSIVE SortDescending(_)
\* pairs <<score, word>> ordered by descending score
SortDescending(pairs) ==
    IF pairs = {} THEN <<>>
    ELSE Bind(CHOOSE p \in pairs : \A q \in pairs : q[1] <= p[1], LAMBDA best :
         Bind(pairs \ {best}, LAMBDA others : <<best>> \o SortDescending(others)))

\* unfactor_probabilities: the search_space_size most frequent ids (ids are in
\* frequency order) scored and sorted by descending joint log-probability
unfactor_probabilities(di, factor_probability_vectors, search_space_size, base) ==
    Bind({<<JointScore(factor_probability_vectors, id, base), di.word_index[id + 1]>> :
             id \in 0..(Min(search_space_size, get_vocab_size(di)) - 1)},
         LAMBDA scored : SortDescending(scored))

(***************************************************************************)
(* WordReplacer.  A WordReplacer is its data_indexer and its optional model *)
(* (absent until train_model or load_model sets self.model).               *)
(***************************************************************************)
\* lines 15-16
NewWordReplacer == [data_indexer |-> NewDataIndexer, model |-> Absent]

\* process_data without the max_length it is given
process_data_unbounded(di, sentences, max_length, factor_base) ==
    Bind(index_data(di, sentences, Absent), LAMBDA indexed :
         [data_indexer |-> indexed.data_indexer,
          sentence_lengths |-> indexed.sentence_lengths,
          input_array |-> [s \in 1..Len(indexed.indexed_sentences) |->
                              PyPrefix(indexed.indexed_sentences[s],
                                       Len(indexed.indexed_sentences[s]) - 1)],
          target_array |-> [s \in 1..Len(indexed.indexed_sentences) |->
                               Tail(indexed.indexed_sentences[s])],
          factored_target_arrays |-> <<>>])

\* lines 18-29.  max_length is an optional number.
process_data(di, sentences, max_length, factor_base) ==
    Bind(index_data(di, sentences, max_length), LAMBDA indexed :
    Bind([s \in 1..Len(indexed.indexed_sentences) |->
             Tail(indexed.indexed_sentences[s])], LAMBDA target_array :
         [data_indexer |-> indexed.data_indexer,
          sentence_lengths |-> indexed.sentence_lengths,
          input_array |-> [s \in 1..Len(indexed.indexed_sentences) |->
                              PyPrefix(indexed.indexed_sentences[s],
                                       Len(indexed.indexed_sentences[s]) - 1)],
          target_array |-> target_array,
          factored_target_arrays |->
              factor_target_indices(indexed.data_indexer, target_array, factor_base)]))

\* lines 31-76.  fitted stands for the parameter values model.fit ends with.
train_model(wr, sentences, word_dim, factor_base, use_lstm, fitted) ==
    Bind(process_data(wr.data_indexer, sentences, Absent, factor_base), LAMBDA data :
       [data_indexer |-> data.data_indexer,
        model |-> Some([input_length |-> Len(data.input_array[1]),
                        vocab_size |-> get_vocab_size(data.data_indexer),
                        word_dim |-> word_dim,
                        rnn |-> IF use_lstm THEN "LSTM" ELSE "SimpleRNN",
                        factor_base |-> factor_base,
                        num_factors |-> Len(data.factored_target_arrays),
                        weights |-> fitted])])

\* line 86-87: the input shape is (batch, num_words); [1] is num_words
get_model_input_shape(wr) == <<None, wr.model[1].input_length>>

\* The digit the model's factor f favours at timestep t of an input row: a fixed
\* function of the weights and of the whole row (both directions are read).
FavouredDigit(model, row, t, f) ==
    (model.weights + SumSeq(row) + row[t] + t * f) % model.factor_base

\* line 108, model.predict: [factor][sentence][timestep] -> a vector of
\* factor_base log-probabilities; the vectors make all joint scores distinct.
predict(model, input_array) ==
    [f \in 1..model.num_factors |->
        [s \in 1..Len(input_array) |->
            [t \in 1..Len(input_array[s]) |->
                [d \in 1..model.factor_base |->
                    0 - (((d - 1 - FavouredDigit(model, input_array[s], t, f))
                              % model.factor_base)
                         * Pow(model.factor_base, f - 1))]]]]

\* line 104
max_train_length(train_sequence_length) == train_sequence_length + 1

\* prediction_length that keeps the starting <s> symbol
prediction_length_with_start(sentence_length, train_sequence_length) ==
    Min(sentence_length, train_sequence_length + 1)

\* lines 115-116
prediction_length(sentence_length, train_sequence_length) ==
    Min(sentence_length, max_train_length(train_sequence_length)) - 1

\* line 123: the timestep that predictions[sentence_id][-prediction_length:][location]
\* reads in a row of num_timesteps predictions, absent where the index is out of
\* range (IndexError).  location >= 0.
ReadTimestep(num_timesteps, pred_length, location) ==
    LET start == PySliceStart(num_timesteps, pred_length)
    IN IF location < num_timesteps - start THEN Some(start + location) ELSE Absent

\* the ranking returned whole
AllSubstitutes(sorted_substitutes, num_substitutes) == sorted_substitutes

\* line 127
TopSubstitutes(sorted_substitutes, num_substitutes) ==
    PyPrefix(sorted_substitutes, num_substitutes)

\* lines 96-128.  The result holds the indexer as the call leaves it, the
\* returned lists (or the error raised), and the locals the call computed.
get_substitutes(wr, sentences, locs, train_sequence_length, num_substitutes, search_space_size) ==
    Bind(process_data(wr.data_indexer, sentences,
                      Some(max_train_length(train_sequence_length)), DefaultFactorBase),
         LAMBDA data :
    Bind(predict(wr.model[1], data.input_array), LAMBDA all_prediction_factors :
    Bind([k \in 1..Min(Len(data.sentence_lengths), Len(locs)) |->
             ReadTimestep(Len(data.input_array[k]),
                          prediction_length(data.sentence_lengths[k],
                                            train_sequence_length),
                          locs[k])], LAMBDA timesteps :
         [data_indexer |-> data.data_indexer,
          sentence_lengths |-> data.sentence_lengths,
          input_array |-> data.input_array,
          target_array |-> data.target_array,
          read_timesteps |-> timesteps,
          error |-> IF \E k \in 1..Len(timesteps) : timesteps[k] = Absent
                    THEN "IndexError" ELSE None,
          all_substitutes |->
              IF \E k \in 1..Len(timesteps) : timesteps[k] = Absent THEN <<>>
              ELSE [k \in 1..Len(timesteps) |->
                      Bind([f \in 1..Len(all_prediction_factors) |->
                               all_prediction_factors[f][k][timesteps[k][1] + 1]],
                           LAMBDA word_predictions :
                      TopSubstitutes(
                          unfactor_probabilities(data.data_indexer, word_predictions,
                                                 search_space_size,
                                                 wr.model[1].factor_base),
                          num_substitutes))]])))

(***************************************************************************)
(* Persistence: the three files of a prefix, each absent or holding what   *)
(* was written to it.                                                      *)
(***************************************************************************)
NoArtifacts == [di_pkl |-> Absent, config_json |-> Absent, weights_h5 |-> Absent]

\* pickle.dump / pickle.load of the DataIndexer object
pickle_dump(di) == [class |-> "DataIndexer", word_index |-> di.word_index]

pickle_load(pickled) == [word_index |-> pickled.word_index]

\* model.to_json(): the architecture, without the parameter values
to_json(model) ==
    [input_length |-> model.input_length, vocab_size |-> model.vocab_size,
     word_dim |-> model.word_dim, rnn |-> model.rnn,
     factor_base |-> model.factor_base, num_factors |-> model.num_factors]

\* model_from_json: the architecture with freshly initialised parameters
model_from_json(config, initial) ==
    [input_length |-> config.input_length, vocab_size |-> config.vocab_size,
     word_dim |-> config.word_dim, rnn |-> config.rnn,
     factor_base |-> config.factor_base, num_factors |-> config.num_factors,
     weights |-> initial]

\* model.save_weights / model.load_weights
save_weights(model) == [values |-> model.weights]

load_weights(model, stored) == [model EXCEPT !.weights = stored.values]

\* lines 78-84.  The two files opened here are closed, and so complete, when the
\* call returns (CPython releases them with the frame).
save_model(wr, fs, prefix) ==
    [fs EXCEPT ![prefix] =
        [di_pkl |-> Some(pickle_dump(wr.data_indexer)),
         config_json |-> Some(to_json(wr.model[1])),
         weights_h5 |-> Some(save_weights(wr.model[1]))]]

\* load_model that leaves the parameters as model_from_json initialised them
load_model_without_weights(wr, fs, prefix, initial) ==
    IF \/ fs[prefix].di_pkl = Absent
       \/ fs[prefix].config_json = Absent
       \/ fs[prefix].weights_h5 = Absent
    THEN [error |-> "IOError", word_replacer |-> wr]
    ELSE [error |-> None,
          word_replacer |->
              [data_indexer |-> pickle_load(fs[prefix].di_pkl[1]),
               model |-> Some(model_from_json(fs[prefix].config_json[1], initial))]]

\* lines 89-94.  Opening a missing file raises IOError; what was assigned before
\* the failing line stays assigned.  initial stands for the parameter values
\* model_from_json initialises the layers with.
load_model(wr, fs, prefix, initial) ==
    IF fs[prefix].di_pkl = Absent THEN [error |-> "IOError", word_replacer |-> wr]
    ELSE LET indexer == pickle_load(fs[prefix].di_pkl[1])
         IN IF fs[prefix].config_json = Absent
            THEN [error |-> "IOError",
                  word_replacer |-> [wr EXCEPT !.data_indexer = indexer]]
            ELSE LET built == model_from_json(fs[prefix].config_json[1], initial)
                 IN IF fs[prefix].weights_h5 = Absent
                    THEN [error |-> "IOError",
                          word_replacer |-> [data_indexer |-> indexer,
                                             model |-> Some(built)]]
                    ELSE [error |-> None,
                          word_replacer |->
                              [data_indexer |-> indexer,
                               model |-> Some(load_weights(built,
                                                           fs[prefix].weights_h5[1]))]]

(***************************************************************************)
(* State.                                                                  *)
(***************************************************************************)
VARIABLES
    pc,                   \* position of the run
    args,                 \* the parsed command line
    files,                \* prefix -> the three model files
    word_replacer,        \* the WordReplacer instance
    test_sentence_words,  \* line 174
    test_sentences,       \* line 176 / the sentences of a get_substitutes call
    locations,            \* line 177 / the locations of a get_substitutes call
    sentence_no,          \* the filter loop's and the output loop's position
    location,             \* line 187
    substitutes,          \* line 194
    outfile,              \* the lines written to --output_file, absent until opened
    line_query,           \* for each written line, the zip position it came from
    stderr,               \* messages printed to sys.stderr
    exit_status,          \* absent while running
    call,                 \* the last WordReplacer method call: what it was given and computed
    saved                 \* prefix -> the WordReplacer last saved there, if any

vars == <<pc, args, files, word_replacer, test_sentence_words, test_sentences,
          locations, sentence_no, location, substitutes, outfile, line_query,
          stderr, exit_status, call, saved>>

(***************************************************************************)
(* Inputs.                                                                 *)
(***************************************************************************)
Weights == 0..(NumWeights - 1)

Prefixes == {"lexsub", "other"}

NoFiles == [p \in Prefixes |-> NoArtifacts]

NothingSaved == [p \in Prefixes |-> Absent]

NoCall == [made |-> FALSE, method |-> None]

RECURSIVE SentencesOfLength(_, _)
\* the sentences of exactly n words over a set of words
SentencesOfLength(words, n) ==
    IF n = 0 THEN {<<>>}
    ELSE {<<w>> \o rest : w \in words, rest \in SentencesOfLength(words, n - 1)}

RECURSIVE Batches(_, _, _, _)
\* the lists of at most max_count sentences over words, each of at least
\* min_words words, holding at most max_total words together
Batches(words, min_words, max_count, max_total) ==
    {<<>>} \cup
    (IF max_count = 0 THEN {}
     ELSE UNION {{<<first>> \o rest :
                    first \in SentencesOfLength(words, n),
                    rest \in Batches(words, min_words, max_count - 1, max_total - n)} :
                 n \in min_words..max_total})

(***************************************************************************)
(* get_substitutes called on a trained WordReplacer (SpecSubstitutes).     *)
(***************************************************************************)
SubCorpora == { << <<"cat">>, <<"dog">> >>, << <<"the", "cat", "sat">> >> }

\* "zebra" is in no training corpus
QueryWords == {"cat", "zebra"}

TrainedReplacers ==
    {train_model(NewWordReplacer, corpus, DefaultWordDim, DefaultFactorBase, FALSE, w) :
        corpus \in SubCorpora, w \in Weights}

SearchSpaceSizes == {SmallSearchSpace, DefaultSearchSpaceSize}

\* one index of a word of its sentence for every sentence of the batch
LocationVectors(batch) ==
    {locs \in [1..Len(batch) -> 0..(MaxBatchWords - 1)] :
        \A k \in 1..Len(batch) : locs[k] < Len(batch[k])}

IdleMain ==
    /\ args = [train_file |-> FALSE, test_file |-> FALSE, output_file |-> FALSE,
               max_instances |-> Absent, search_space_size |-> DefaultSearchSpaceSize,
               model_serialization_prefix |-> "lexsub"]
    /\ test_sentence_words = <<>>
    /\ sentence_no = 0
    /\ location = 0
    /\ outfile = Absent
    /\ line_query = <<>>
    /\ stderr = <<>>
    /\ exit_status = Absent

SubInit ==
    /\ IdleMain
    /\ pc = "sub_ready"
    /\ files = NoFiles
    /\ saved = NothingSaved
    /\ word_replacer \in TrainedReplacers
    /\ test_sentences = <<>>
    /\ locations = <<>>
    /\ substitutes = <<>>
    /\ call = NoCall

\* a caller passes a batch, a location per sentence and the model's input length
SubCall ==
    /\ pc = "sub_ready"
    /\ \E batch \in Batches(QueryWords, 1, MaxSentences, MaxBatchWords) \ {<<>>} :
       \E locs \in LocationVectors(batch) :
       \E search_space_size \in SearchSpaceSizes :
          LET train_sequence_length == get_model_input_shape(word_replacer)[2]
              result == get_substitutes(word_replacer, batch, locs, train_sequence_length,
                                        DefaultNumSubstitutes, search_space_size)
          IN /\ test_sentences' = batch
             /\ locations' = locs
             /\ call' = [made |-> TRUE,
                         method |-> "get_substitutes",
                         before |-> word_replacer,
                         train_sequence_length |-> train_sequence_length,
                         num_substitutes |-> DefaultNumSubstitutes,
                         search_space_size |-> search_space_size,
                         result |-> result]
             /\ word_replacer' = [word_replacer EXCEPT !.data_indexer = result.data_indexer]
             /\ substitutes' = result.all_substitutes
    /\ pc' = "sub_returned"
    /\ UNCHANGED <<args, files, test_sentence_words, sentence_no, location, outfile,
                   line_query, stderr, exit_status, saved>>

\* the caller goes on to its next batch with the same WordReplacer
SubAgain ==
    /\ pc = "sub_returned"
    /\ pc' = "sub_ready"
    /\ test_sentences' = <<>>
    /\ locations' = <<>>
    /\ substitutes' = <<>>
    /\ call' = NoCall
    /\ UNCHANGED <<args, files, word_replacer, test_sentence_words, sentence_no, location,
                   outfile, line_query, stderr, exit_status, saved>>

SubNext == SubCall \/ SubAgain

SpecSubstitutes == SubInit /\ [][SubNext]_vars

(***************************************************************************)
(* save_model and load_model called on WordReplacers of one process, with  *)
(* files that earlier processes may have left (SpecPersist).               *)
(***************************************************************************)
PersistReplacers ==
    {train_model(NewWordReplacer, corpus, DefaultWordDim, DefaultFactorBase, use_lstm, w) :
        corpus \in SubCorpora, use_lstm \in BOOLEAN, w \in Weights}

PersistInit ==
    /\ IdleMain
    /\ pc = "persist"
    /\ saved \in [Prefixes -> {Absent} \cup {Some(wr) : wr \in PersistReplacers}]
    /\ files = [p \in Prefixes |->
                   IF saved[p] = Absent THEN NoArtifacts
                   ELSE save_model(saved[p][1], NoFiles, p)[p]]
    /\ word_replacer = NewWordReplacer
    /\ test_sentences = <<>>
    /\ locations = <<>>
    /\ substitutes = <<>>
    /\ call = NoCall

PersistFrame ==
    UNCHANGED <<pc, args, test_sentence_words, test_sentences, locations, sentence_no,
                location, substitutes, outfile, line_query, stderr, exit_status>>

\* train_model on the new WordReplacer
PersistTrain ==
    /\ word_replacer.model = Absent
    /\ \E trained \in PersistReplacers :
          /\ word_replacer' = trained
          /\ call' = [made |-> TRUE, method |-> "train_model"]
    /\ UNCHANGED <<files, saved>>
    /\ PersistFrame

PersistSave ==
    /\ word_replacer.model # Absent
    /\ \E prefix \in Prefixes :
          /\ files' = save_model(word_replacer, files, prefix)
          /\ saved' = [saved EXCEPT ![prefix] = Some(word_replacer)]
          /\ call' = [made |-> TRUE, method |-> "save_model", prefix |-> prefix]
    /\ UNCHANGED word_replacer
    /\ PersistFrame

PersistLoad ==
    /\ \E prefix \in Prefixes : \E initial \in Weights :
          LET loaded == load_model(word_replacer, files, prefix, initial)
          IN /\ word_replacer' = loaded.word_replacer
             /\ call' = [made |-> TRUE, method |-> "load_model", prefix |-> prefix,
                         before |-> word_replacer, error |-> loaded.error]
    /\ UNCHANGED <<files, saved>>
    /\ PersistFrame

PersistNext == PersistTrain \/ PersistSave \/ PersistLoad

SpecPersist == PersistInit /\ [][PersistNext]_vars

(***************************************************************************)
(* The command-line run, lines 130-207 (Spec).                             *)
(***************************************************************************)
\* the sentences of --train_file
TrainFile == << <<"the", "cat">>, <<"dog">> >>

\* the words of --test_file
TestWords == {"the", "cat"}

TestFiles == Batches(TestWords, 0, MaxSentences, MaxFileWords)

\* random.shuffle: the orders of a list
Shuffles(list) ==
    {[i \in 1..Len(list) |-> list[perm[i]]] :
        perm \in {f \in [1..Len(list) -> 1..Len(list)] :
                     \A a, b \in 1..Len(list) : a # b => f[a] # f[b]}}

\* " ".join(words): see the conventions above
Join(words) == words

\* what an earlier run has left under the prefix: nothing, or a saved model
EarlierRuns ==
    {Absent} \cup
    {Some(train_model(NewWordReplacer, TrainFile, DefaultWordDim, DefaultFactorBase,
                      FALSE, w)) : w \in Weights}

Init ==
    /\ pc = "start"
    /\ args \in [train_file : BOOLEAN, test_file : BOOLEAN, output_file : BOOLEAN,
                 max_instances : {Absent, Some(1)},
                 search_space_size : SearchSpaceSizes,
                 model_serialization_prefix : {"lexsub"}]
    /\ (~args.train_file => args.max_instances = Absent)
    /\ saved \in [Prefixes -> EarlierRuns]
    /\ saved["other"] = Absent
    /\ files = [p \in Prefixes |->
                   IF saved[p] = Absent THEN NoArtifacts
                   ELSE save_model(saved[p][1], NoFiles, p)[p]]
    /\ word_replacer = NewWordReplacer
    /\ test_sentence_words = <<>>
    /\ test_sentences = <<>>
    /\ locations = <<>>
    /\ sentence_no = 0
    /\ location = 0
    /\ substitutes = <<>>
    /\ outfile = Absent
    /\ line_query = <<>>
    /\ stderr = <<>>
    /\ exit_status = Absent
    /\ call = NoCall

\* an uncaught exception: the traceback names it and the interpreter exits with 1
Raise(exception) ==
    /\ pc' = "error"
    /\ stderr' = Append(stderr, exception)
    /\ exit_status' = Some(1)

\* lines 155-163
TrainModel ==
    /\ pc = "start"
    /\ args.train_file
    /\ \E shuffled \in Shuffles(TrainFile) : \E fitted \in Weights :
          word_replacer' =
              train_model(word_replacer,
                          IF args.max_instances = Absent THEN shuffled
                          ELSE PyPrefix(shuffled, args.max_instances[1]),
                          DefaultWordDim, DefaultFactorBase, FALSE, fitted)
    /\ stderr' = Append(stderr, "Reading training data")
    /\ pc' = "trained"
    /\ UNCHANGED <<args, files, test_sentence_words, test_sentences, locations,
                   sentence_no, location, substitutes, outfile, line_query, exit_status,
                   call, saved>>

\* line 164
SaveModel ==
    /\ pc = "trained"
    /\ files' = save_model(word_replacer, files, args.model_serialization_prefix)
    /\ saved' = [saved EXCEPT ![args.model_serialization_prefix] = Some(word_replacer)]
    /\ pc' = "model_ready"
    /\ UNCHANGED <<args, word_replacer, test_sentence_words, test_sentences, locations,
                   sentence_no, location, substitutes, outfile, line_query, stderr,
                   exit_status, call>>

\* lines 165-167
LoadModel ==
    /\ pc = "start"
    /\ ~args.train_file
    /\ \E initial \in Weights :
          LET loaded == load_model(word_replacer, files, args.model_serialization_prefix,
                                   initial)
          IN /\ word_replacer' = loaded.word_replacer
             /\ IF loaded.error = None
                THEN /\ pc' = "model_ready"
                     /\ stderr' = Append(stderr, "Loading saved model")
                     /\ UNCHANGED exit_status
                ELSE /\ pc' = "error"
                     /\ stderr' = stderr \o <<"Loading saved model", loaded.error>>
                     /\ exit_status' = Some(1)
    /\ UNCHANGED <<args, files, test_sentence_words, test_sentences, locations,
                   sentence_no, location, substitutes, outfile, line_query, call, saved>>

\* line 169, the test file is not given: the script ends
NoTestFile ==
    /\ pc = "model_ready"
    /\ ~args.test_file
    /\ pc' = "done"
    /\ exit_status' = Some(0)
    /\ UNCHANGED <<args, files, word_replacer, test_sentence_words, test_sentences,
                   locations, sentence_no, location, substitutes, outfile, line_query,
                   stderr, call, saved>>

\* the condition of lines 169-170 without its second test
OutputFileNeverMissing(a) == FALSE

\* lines 169-170
OutputFileMissing(a) == a.test_file /\ ~a.output_file

\* lines 171-172: sys.exit(-1) ends the process with status 255
MissingOutputFile ==
    /\ pc = "model_ready"
    /\ OutputFileMissing(args)
    /\ stderr' = Append(stderr, "Need to specify where to save output with --output_file")
    /\ exit_status' = Some(255)
    /\ pc' = "exited"
    /\ UNCHANGED <<args, files, word_replacer, test_sentence_words, test_sentences,
                   locations, sentence_no, location, substitutes, outfile, line_query,
                   call, saved>>

\* lines 173-177
ReadTestData ==
    /\ pc = "model_ready"
    /\ args.test_file
    /\ ~OutputFileMissing(args)
    /\ stderr' = Append(stderr, "Reading test data")
    /\ test_sentence_words' \in TestFiles
    /\ test_sentences' = <<>>
    /\ locations' = <<>>
    /\ sentence_no' = 1
    /\ pc' = "filter"
    /\ UNCHANGED <<args, files, word_replacer, location, substitutes, outfile,
                   line_query, exit_status, call, saved>>

\* line 182
OnlyStopWords(words) == Range(words) \ words_to_ignore = {}

\* lines 181-184: a sentence without a non-stop word is passed over
SkipStopWordSentence ==
    /\ pc = "filter"
    /\ sentence_no <= Len(test_sentence_words)
    /\ OnlyStopWords(test_sentence_words[sentence_no])
    /\ sentence_no' = sentence_no + 1
    /\ UNCHANGED <<pc, args, files, word_replacer, test_sentence_words, test_sentences,
                   locations, location, substitutes, outfile, line_query, stderr,
                   exit_status, call, saved>>

\* random.randint(a, b): the integers it can return; none when b < a (ValueError)
randint(a, b) == a..b

\* line 187
ChooseLocation ==
    /\ pc = "filter"
    /\ sentence_no <= Len(test_sentence_words)
    /\ ~OnlyStopWords(test_sentence_words[sentence_no])
    /\ IF randint(0, Len(test_sentence_words[sentence_no]) - 2) = {}
       THEN /\ Raise("ValueError: line 187")
            /\ UNCHANGED location
       ELSE /\ location' \in randint(0, Len(test_sentence_words[sentence_no]) - 2)
            /\ pc' = "while"
            /\ UNCHANGED <<stderr, exit_status>>
    /\ UNCHANGED <<args, files, word_replacer, test_sentence_words, test_sentences,
                   locations, sentence_no, substitutes, outfile, line_query, call, saved>>

\* lines 188-189
RetryLocation ==
    /\ pc = "while"
    /\ test_sentence_words[sentence_no][location + 1] \in words_to_ignore
    /\ location' \in randint(0, Len(test_sentence_words[sentence_no]) - 2)
    /\ UNCHANGED <<pc, args, files, word_replacer, test_sentence_words, test_sentences,
                   locations, sentence_no, substitutes, outfile, line_query, stderr,
                   exit_status, call, saved>>

\* lines 188, 190-191
AppendLocation ==
    /\ pc = "while"
    /\ test_sentence_words[sentence_no][location + 1] \notin words_to_ignore
    /\ locations' = Append(locations, location)
    /\ test_sentences' = Append(test_sentences, Join(test_sentence_words[sentence_no]))
    /\ sentence_no' = sentence_no + 1
    /\ pc' = "filter"
    /\ UNCHANGED <<args, files, word_replacer, test_sentence_words, location,
                   substitutes, outfile, line_query, stderr, exit_status, call, saved>>

\* line 193, the diagnostic written to sys.stderr.  As written (the print
\* statement's ">>" form in a module that imports print_function) the line
\* raises TypeError; it is modelled as the message it is meant to print, so
\* that lines 194-207 are covered.
ReportSearchSpace ==
    /\ pc = "filter"
    /\ sentence_no > Len(test_sentence_words)
    /\ stderr' = Append(stderr, "Limiting search space size")
    /\ pc' = "substitute"
    /\ UNCHANGED <<args, files, word_replacer, test_sentence_words, test_sentences,
                   locations, sentence_no, location, substitutes, outfile, line_query,
                   exit_status, call, saved>>

\* lines 192, 194-197
CallGetSubstitutes ==
    /\ pc = "substitute"
    /\ LET train_sequence_length == get_model_input_shape(word_replacer)[2]
           result == get_substitutes(word_replacer, test_sentences, locations,
                                     train_sequence_length, DefaultNumSubstitutes,
                                     args.search_space_size)
       IN /\ call' = [made |-> TRUE,
                      method |-> "get_substitutes",
                      before |-> word_replacer,
                      train_sequence_length |-> train_sequence_length,
                      num_substitutes |-> DefaultNumSubstitutes,
                      search_space_size |-> args.search_space_size,
                      result |-> result]
          /\ word_replacer' = [word_replacer EXCEPT !.data_indexer = result.data_indexer]
          /\ IF result.error = None
             THEN /\ substitutes' = result.all_substitutes
                  /\ outfile' = Some(<<>>)
                  /\ sentence_no' = 1
                  /\ pc' = "output"
                  /\ UNCHANGED <<stderr, exit_status>>
             ELSE /\ Raise("IndexError: line 123")
                  /\ UNCHANGED <<substitutes, outfile, sentence_no>>
    /\ UNCHANGED <<args, files, test_sentence_words, test_sentences, locations, location,
                   line_query, saved>>

\* the length of zip(substitutes, test_sentence_words, locations)
ZipLength == Min(Len(substitutes), Min(Len(test_sentence_words), Len(locations)))

\* lines 201-202: the first substitute that is neither a stop word nor the word
\* being replaced, if there is one
FirstEligible(logprob_substitute_list, word_being_replaced) ==
    LET eligible == {n \in 1..Len(logprob_substitute_list) :
                        logprob_substitute_list[n][2]
                            \notin (words_to_ignore \cup {word_being_replaced})}
    IN IF eligible = {} THEN Absent
       ELSE Some(logprob_substitute_list[CHOOSE n \in eligible :
                                             \A m \in eligible : n <= m][2])

\* lines 198-206, one iteration
WriteLine ==
    /\ pc = "output"
    /\ sentence_no <= ZipLength
    /\ LET words == test_sentence_words[sentence_no]
           where == locations[sentence_no]
       IN IF where >= Len(words)
          THEN /\ Raise("IndexError: line 200")
               /\ UNCHANGED <<outfile, line_query, sentence_no>>
          ELSE LET substitute == FirstEligible(substitutes[sentence_no], words[where + 1])
               IN /\ IF substitute = Absent
                     THEN UNCHANGED <<outfile, line_query>>
                     ELSE /\ outfile' =
                                Some(Append(outfile[1],
                                            <<Join(words),
                                              Join([words EXCEPT ![where + 1] =
                                                                     substitute[1]])>>))
                          /\ line_query' = Append(line_query, sentence_no)
                  /\ sentence_no' = sentence_no + 1
                  /\ UNCHANGED <<pc, stderr, exit_status>>
    /\ UNCHANGED <<args, files, word_replacer, test_sentence_words, test_sentences,
                   locations, location, substitutes, call, saved>>

\* line 207 and the end of the script
CloseOutput ==
    /\ pc = "output"
    /\ sentence_no > ZipLength
    /\ pc' = "done"
    /\ exit_status' = Some(0)
    /\ UNCHANGED <<args, files, word_replacer, test_sentence_words, test_sentences,
                   locations, sentence_no, location, substitutes, outfile, line_query,
                   stderr, call, saved>>

Next ==
    \/ TrainModel
    \/ SaveModel
    \/ LoadModel
    \/ NoTestFile
    \/ MissingOutputFile
    \/ ReadTestData
    \/ SkipStopWordSentence
    \/ ChooseLocation
    \/ RetryLocation
    \/ AppendLocation
    \/ ReportSearchSpace
    \/ CallGetSubstitutes
    \/ WriteLine
    \/ CloseOutput

Spec == Init /\ [][Next]_vars

(***************************************************************************)
(* Properties of get_substitutes, stated on the state a call returns in.   *)
(***************************************************************************)
Returned == pc = "sub_returned"

Queries == 1..Len(test_sentences)

\* the sentence with its start and end markers is no longer than
\* train_sequence_length + 1
Fits(k) == Len(test_sentences[k]) + 2 <= call.train_sequence_length + 1

Known(word) == word \in Range(call.before.data_indexer.word_index)

\* the id the vocabulary of the call gives a word
LookedUp(word) ==
    IF Known(word) THEN IdOf(call.before.data_indexer.word_index, word)
    ELSE IdOf(call.before.data_indexer.word_index, UnknownWord)

\* the ranking of the prediction the call read for query k
RankingRead(k) ==
    Bind(predict(call.before.model[1], call.result.input_array), LAMBDA predicted :
         unfactor_probabilities(
             call.before.data_indexer,
             [f \in 1..Len(predicted) |->
                 predicted[f][k][call.result.read_timesteps[k][1] + 1]],
             call.search_space_size, call.before.model[1].factor_base))

Descending(pairs) == \A a, b \in 1..Len(pairs) : a < b => pairs[a][1] >= pairs[b][1]

\* C4: a sentence longer than train_sequence_length + 1 (markers included) never
\* makes get_substitutes fail: for every location that is a word index of the
\* untruncated sentence the lookup of the prediction completes.
C4_LongSentenceLookupNeverFails ==
    Returned =>
        \A k \in Queries :
            (~Fits(k) /\ locations[k] \in 0..(Len(test_sentences[k]) - 1))
                => (call.result.read_timesteps[k] # Absent /\ call.result.error = None)

\* C5: for a sentence that fits, the timestep read for location is the one whose
\* training target is the word at that location, and its input is not padding.
C5_ReadTimestepTargetsWordAtLocation ==
    Returned =>
        \A k \in Queries :
            Fits(k) =>
                /\ call.result.read_timesteps[k] # Absent
                /\ call.result.target_array[k][call.result.read_timesteps[k][1] + 1]
                       = LookedUp(test_sentences[k][locations[k] + 1])
                /\ call.result.input_array[k][call.result.read_timesteps[k][1] + 1]
                       # PaddingId

\* a padded sentence was queried at a location after its first word
C5_Witness ==
    /\ Returned
    /\ \E k \in Queries :
          /\ Fits(k)
          /\ locations[k] >= 1
          /\ call.result.input_array[k][1] = PaddingId
          /\ test_sentences[k][1] # test_sentences[k][2]

\* C6 as stated: one list per pair, in input order, each of exactly
\* num_substitutes pairs by descending score, the head of the ranking.
C6_ExactlyNumSubstitutes ==
    (Returned /\ call.result.error = None) =>
        /\ Len(substitutes) = Len(test_sentences)
        /\ \A k \in Queries :
              /\ Len(substitutes[k]) = call.num_substitutes
              /\ Descending(substitutes[k])
              /\ substitutes[k] = PyPrefix(RankingRead(k), call.num_substitutes)

\* C6 amended: each list is the first num_substitutes entries of the ranking, so
\* it holds min(num_substitutes, search_space_size, vocabulary size) pairs.
C6_FirstNumSubstitutesOfRanking ==
    (Returned /\ call.result.error = None) =>
        /\ Len(substitutes) = Len(test_sentences)
        /\ \A k \in Queries :
              /\ Len(substitutes[k])
                     = Min(call.num_substitutes,
                           Min(call.search_space_size,
                               get_vocab_size(call.before.data_indexer)))
              /\ Descending(substitutes[k])
              /\ substitutes[k] = PyPrefix(RankingRead(k), call.num_substitutes)

\* two sentences got two different full lists
C6_Witness ==
    /\ Returned
    /\ call.result.error = None
    /\ Len(test_sentences) = 2
    /\ Len(substitutes[1]) = call.num_substitutes
    /\ substitutes[1] # substitutes[2]

\* where word j (1-based) of query k stands in its row of input_array: after the
\* padding and <s> when the sentence fits, after <s> when it was truncated
InputPosition(k, j) ==
    IF Fits(k) THEN call.train_sequence_length - Len(test_sentences[k]) + j ELSE j + 1

ProbeBatch(model) == << [t \in 1..model.input_length |-> t % model.vocab_size] >>

\* C7: load_model(prefix) after save_model(prefix) restores what was saved: save
\* writes the three files, load reads them, and the vocabulary index, the
\* architecture, the weights and so the predictions are those saved.
C7_LoadRestoresWhatSaveWrote ==
    /\ (call.method = "save_model") =>
           /\ files[call.prefix].di_pkl = Some(pickle_dump(word_replacer.data_indexer))
           /\ files[call.prefix].config_json = Some(to_json(word_replacer.model[1]))
           /\ files[call.prefix].weights_h5 = Some(save_weights(word_replacer.model[1]))
    /\ (call.method = "load_model" /\ saved[call.prefix] # Absent) =>
           /\ call.error = None
           /\ word_replacer.data_indexer = saved[call.prefix][1].data_indexer
           /\ to_json(word_replacer.model[1]) = to_json(saved[call.prefix][1].model[1])
           /\ word_replacer.model[1].weights = saved[call.prefix][1].model[1].weights
           /\ predict(word_replacer.model[1], ProbeBatch(word_replacer.model[1]))
                  = predict(saved[call.prefix][1].model[1],
                            ProbeBatch(word_replacer.model[1]))
    /\ (call.method = "load_model" /\ saved[call.prefix] = Absent) =>
           call.error = "IOError"

\* a model saved by this process was loaded over a different one
C7_Witness ==
    /\ call.method = "load_model"
    /\ call.error = None
    /\ call.before.model # Absent
    /\ call.before # word_replacer
    /\ \E other \in Prefixes : other # call.prefix /\ saved[other] = Some(call.before)

(***************************************************************************)
(* Properties of the command-line run.                                     *)
(***************************************************************************)
Lines == IF outfile = Absent THEN <<>> ELSE outfile[1]

Original(line) == line[1]

Corrupted(line) == line[2]

EligibleFor(k) ==
    {n \in 1..Len(substitutes[k]) :
        substitutes[k][n][2]
            \notin (words_to_ignore \cup {test_sentences[k][locations[k] + 1]})}

C10_LocationChoiceTerminates ==
    /\ "ValueError: line 187" \notin Range(stderr)
    /\ pc = "while" =>
          /\ location \in 0..(Len(test_sentence_words[sentence_no]) - 2)
          /\ \E l \in randint(0, Len(test_sentence_words[sentence_no]) - 2) :
                test_sentence_words[sentence_no][l + 1] \notin words_to_ignore

\* C3: with a test file and no output file the run reports it and ends with a
\* non-zero status once the model is there, before test data is read, substitutes
\* are computed or output is written.
C3_MissingOutputFileIsFatal ==
    (args.test_file /\ ~args.output_file) =>
        /\ pc \in {"start", "trained", "model_ready", "exited", "error"}
        /\ "Reading test data" \notin Range(stderr)
        /\ test_sentence_words = <<>> /\ test_sentences = <<>> /\ locations = <<>>
        /\ ~call.made /\ substitutes = <<>>
        /\ outfile = Absent
        /\ pc = "error" => "IOError" \in Range(stderr)
        /\ pc \in {"exited", "error"} => exit_status # Absent /\ exit_status[1] # 0
        /\ pc = "exited" =>
              /\ word_replacer.model # Absent
              /\ "Need to specify where to save output with --output_file"
                     \in Range(stderr)

\* the run ended so after loading a model; another ended so after training one
C3_Witness ==
    /\ pc = "exited"
    /\ exit_status = Some(255)
    /\ ~args.train_file
    /\ word_replacer = saved["lexsub"][1]

====
